---- MODULE Spec2Model ----
(***************************************************************************)
(* A model of aoclib: the row-major Grid<V> container (grid.rs) with its   *)
(* byte specialisation (parse / format_ascii), its accessors, maps and     *)
(* row / column iterators, and the ExtractNumbers scanner (lib.rs).        *)
(*                                                                         *)
(* Option<T> is modelled as a sequence of length at most one: <<>> is None *)
(* and <<v>> is Some(v).  A byte string (&[u8], String, &str) is a         *)
(* sequence of integers in 0..255.  A panic ends the program: the state    *)
(* machine moves to pc = "panicked" and no operation is enabled any more.  *)
(***************************************************************************)
EXTENDS Integers, Sequences, FiniteSets, TLC

VARIABLES
    pc,         \* "start", "grid" (a Grid is alive), "scan" (an ExtractNumbers is alive), "panicked"
    input,      \* the byte slice handed to Grid::parse
    grid,       \* Option<Grid<u8>>: the grid owned by the caller
    writes,     \* number of writes made through get_mut so far
    view,       \* Option<GridRow | GridCol>: an outstanding view
    iter,       \* Option<GridRowIter | GridColIter>: an outstanding cursor
    collected,  \* the items the outstanding cursor has yielded so far
    result,     \* the last call: [op, args, status, value]
    text,       \* the str handed to extract_numbers (UTF-8 bytes)
    remainder,  \* ExtractNumbers.remainder, as its byte offset into text
    tokens,     \* the slices ExtractNumbers has yielded, as [start, end) byte offsets into text
    cursors     \* per handle of the caller: an Option<Rows | Cols> and the views it has yielded

vars == <<pc, input, grid, writes, view, iter, collected, cursors, result, text, remainder, tokens>>

gridVars == <<input, grid, writes, view, iter, collected>>
scanVars == <<text, remainder, tokens>>
cursorVars == <<cursors>>

----------------------------------------------------------------------------
(* Bounds of the model *)

\* longest input handed to Grid::parse
MaxLen == 5
\* how far beyond width / height the coordinates handed to the accessors go
Beyond == 1
\* number of writes through get_mut in one run
MaxWrites == 1
\* longest text (in characters) handed to extract_numbers
MaxText == 5

----------------------------------------------------------------------------
(* Program constants *)

\* b'\n', the line separator
NL == 10
\* b'-', the sign character
MINUS == 45
\* the largest ASCII byte (u8::is_ascii)
AsciiMax == 127

\* bytes the inputs of parse are drawn from: '\n', '.', and the non-ASCII 200
InputBytes == {NL, 46, 200}
\* bytes written through get_mut: the two sides of the ASCII boundary
WriteBytes == {AsciiMax, AsciiMax + 1}
\* characters the texts are drawn from, UTF-8 encoded: '0', '7', '-', '+', 'ü'
Chars == {<<48>>, <<55>>, <<MINUS>>, <<43>>, <<195, 188>>}

None == <<>>
Some(v) == <<v>>

\* the record of a call: what was called, with what, and how it ended
NoCall == [op |-> "none", args |-> <<>>, status |-> "ok", value |-> None]

Ok(v) == [status |-> "ok", value |-> Some(v)]
Panic(kind) == [status |-> kind, value |-> None]

Call(op, args, r) == [op |-> op, args |-> args, status |-> r.status, value |-> r.value]

----------------------------------------------------------------------------
(* Grid<u8>::parse *)

\* <[u8]>::split(|c| *c == b'\n'): the segments between separators; the
\* empty slice gives one empty segment.
RECURSIVE split(_)
split(s) ==
    IF \E i \in 1..Len(s) : s[i] = NL
    THEN LET i == CHOOSE k \in 1..Len(s) : s[k] = NL /\ \A j \in 1..(k - 1) : s[j] # NL
         IN  <<SubSeq(s, 1, i - 1)>> \o split(SubSeq(s, i + 1, Len(s)))
    ELSE <<s>>

\* Grid::empty()
empty == [values |-> <<>>, width |-> 0, height |-> 0]

\* A plausible slip: an empty line ends the loop whatever follows it.
RECURSIVE parse_loop_any_empty_line(_, _, _, _)
parse_loop_any_empty_line(lines, i, width, values) ==
    IF i > Len(lines) THEN Ok(values)
    ELSE IF Len(lines[i]) # width
         THEN IF lines[i] = <<>> THEN Ok(values) ELSE Panic("InvalidGrid")
         ELSE parse_loop_any_empty_line(lines, i + 1, width, values \o lines[i])

\* The `for line in &mut lines` loop of parse, from line i on.
RECURSIVE parse_loop(_, _, _, _)
parse_loop(lines, i, width, values) ==
    IF i > Len(lines) THEN Ok(values)
    ELSE IF Len(lines[i]) # width
         THEN IF lines[i] = <<>> /\ i + 1 > Len(lines)   \* line.is_empty() && lines.next().is_none()
              THEN Ok(values)                             \* break
              ELSE Panic("InvalidGrid")
         ELSE parse_loop(lines, i + 1, width, values \o lines[i])

\* A plausible slip: an off-by-one in the height, as if the segment after
\* the last newline were a row.
parse_height_one_more(values, width) ==
    IF width = 0 THEN Panic("DivideByZero") ELSE Ok((Len(values) \div width) + 1)

\* `let height = values.len() / width;` (usize division panics on a zero divisor)
parse_height(values, width) ==
    IF width = 0 THEN Panic("DivideByZero") ELSE Ok(Len(values) \div width)

parse(bytes) ==
    LET lines == split(bytes) IN
    IF Len(lines) = 0 THEN Ok(empty)                      \* lines.next() == None
    ELSE LET first_line == lines[1]
             width == Len(first_line)
             body == parse_loop(lines, 2, width, first_line)
         IN  IF body.status # "ok" THEN Panic(body.status)
             ELSE LET values == body.value[1]
                      height == parse_height(values, width)
                  IN  IF height.status # "ok" THEN Panic(height.status)
                      ELSE Ok([values |-> values, width |-> width, height |-> height.value[1]])

----------------------------------------------------------------------------
(* Grid<u8>::format_ascii *)

\* A plausible slip: only the first row is checked.
is_ascii_first_row(g) ==
    \A i \in 1..Len(g.values) : i <= g.width => g.values[i] <= AsciiMax

\* self.values.is_ascii()
is_ascii(g) == \A i \in 1..Len(g.values) : g.values[i] <= AsciiMax

\* The `while !remainder.is_empty()` loop of format_ascii.
RECURSIVE format_loop(_, _, _)
format_loop(rem, width, formatted) ==
    IF rem = <<>> THEN Ok(formatted)
    ELSE IF width > Len(rem) THEN Panic("SliceIndexOutOfRange")     \* &remainder[..self.width]
    ELSE IF width = 0 THEN Panic("Diverges")                        \* the loop makes no progress
    ELSE format_loop(SubSeq(rem, width + 1, Len(rem)), width,
                     formatted \o SubSeq(rem, 1, width) \o <<NL>>)

format_ascii(g) ==
    IF ~is_ascii(g) THEN Panic("InvalidEncoding")
    ELSE format_loop(g.values, g.width, <<>>)

----------------------------------------------------------------------------
(* Grid<V>: coordinates, accessors, maps *)

\* A plausible slip: only the flat index is checked against the storage.
coords_to_slice_index_flat_check(g, x, y) ==
    IF y * g.width + x < Len(g.values) THEN Ok(y * g.width + x) ELSE Panic("IndexOutOfBounds")

coords_to_slice_index(g, x, y) ==
    IF ~(x < g.width) THEN Panic("IndexOutOfBounds")      \* assert!(x < self.width)
    ELSE IF ~(y < g.height) THEN Panic("IndexOutOfBounds") \* assert!(y < self.height)
    ELSE Ok(y * g.width + x)

\* A plausible slip: the two coordinates exchanged.
slice_index_to_coords_swapped(g, index) ==
    IF ~(index < g.width * g.height) THEN Panic("IndexOutOfBounds")
    ELSE Ok(<<index \div g.width, index % g.width>>)

slice_index_to_coords(g, index) ==
    IF ~(index < g.width * g.height) THEN Panic("IndexOutOfBounds")
    ELSE Ok(<<index % g.width, index \div g.width>>)

\* Vec<V> indexing: self.values[index]
vec_index(values, index) ==
    IF index < Len(values) THEN Ok(values[index + 1]) ELSE Panic("VecIndexOutOfBounds")

get(g, x, y) ==
    LET index == coords_to_slice_index(g, x, y) IN
    IF index.status # "ok" THEN Panic(index.status)
    ELSE vec_index(g.values, index.value[1])

\* A plausible slip: the write lands in the cell after the addressed one.
get_mut_write_next_cell(g, x, y, v) ==
    LET index == coords_to_slice_index(g, x, y) IN
    IF index.status # "ok" THEN Panic(index.status)
    ELSE IF ~(index.value[1] < Len(g.values)) THEN Panic("VecIndexOutOfBounds")
    ELSE Ok([g EXCEPT !.values[((index.value[1] + 1) % Len(g.values)) + 1] = v])

\* `*grid.get_mut(x, y) = v`: the grid after the write
get_mut_write(g, x, y, v) ==
    LET index == coords_to_slice_index(g, x, y) IN
    IF index.status # "ok" THEN Panic(index.status)
    ELSE IF ~(index.value[1] < Len(g.values)) THEN Panic("VecIndexOutOfBounds")
    ELSE Ok([g EXCEPT !.values[index.value[1] + 1] = v])

\* The closures handed to map: 1 is the one of tests::map, 2 adds one (wrapping).
map_fn(k, v) ==
    IF k = 1
    THEN (IF v = 46 THEN "skin" ELSE IF v = 111 THEN "mouth" ELSE IF v = 88 THEN "eye" ELSE "other")
    ELSE (v + 1) % 256

\* The closures handed to map_indexed: 1 is the one of tests::map_indexed
\* (with the byte kept), 2 pairs the cell with its position.
map_indexed_fn(k, v, x, y) ==
    IF k = 1 THEN <<x + y, v>> ELSE <<v, x, y>>

MapFns == {1, 2}

map(g, k) ==
    Ok([values |-> [i \in 1..Len(g.values) |-> map_fn(k, g.values[i])],
        width |-> g.width, height |-> g.height])

map_indexed(g, k) ==
    LET coords == [i \in 1..Len(g.values) |-> slice_index_to_coords(g, i - 1)] IN
    IF \E i \in 1..Len(g.values) : coords[i].status # "ok" THEN Panic("IndexOutOfBounds")
    ELSE Ok([values |-> [i \in 1..Len(g.values) |->
                            map_indexed_fn(k, g.values[i], coords[i].value[1][1], coords[i].value[1][2])],
             width |-> g.width, height |-> g.height])

\* Grid::row / Grid::col: the view, or the failed assertion
row(g, r) ==
    IF ~(r < g.height) THEN Panic("IndexOutOfBounds") ELSE Ok([kind |-> "row", index |-> r])

col(g, c) ==
    IF ~(c < g.width) THEN Panic("IndexOutOfBounds") ELSE Ok([kind |-> "col", index |-> c])

\* IntoIterator for GridRow / GridCol
into_iter(v) ==
    IF v.kind = "row" THEN [kind |-> "row", row |-> v.index, col |-> 0]
    ELSE [kind |-> "col", row |-> 0, col |-> v.index]

\* A plausible slip: the coordinates handed to get in the wrong order.
GridRowIter_next_swapped(g, it) ==
    IF it.col < g.width
    THEN LET val == get(g, it.row, it.col) IN
         IF val.status # "ok" THEN [ret |-> Panic(val.status), it |-> it]
         ELSE [ret |-> Ok(Some(val.value[1])), it |-> [it EXCEPT !.col = it.col + 1]]
    ELSE [ret |-> Ok(None), it |-> it]

\* GridRowIter::next: the returned Option and the cursor afterwards
GridRowIter_next(g, it) ==
    IF it.col < g.width
    THEN LET val == get(g, it.col, it.row) IN
         IF val.status # "ok" THEN [ret |-> Panic(val.status), it |-> it]
         ELSE [ret |-> Ok(Some(val.value[1])), it |-> [it EXCEPT !.col = it.col + 1]]
    ELSE [ret |-> Ok(None), it |-> it]

\* GridColIter::next
GridColIter_next(g, it) ==
    IF it.row < g.height
    THEN LET val == get(g, it.col, it.row) IN
         IF val.status # "ok" THEN [ret |-> Panic(val.status), it |-> it]
         ELSE [ret |-> Ok(Some(val.value[1])), it |-> [it EXCEPT !.row = it.row + 1]]
    ELSE [ret |-> Ok(None), it |-> it]

----------------------------------------------------------------------------
(* Grid::rows / Grid::cols and the Rows / Cols cursors *)

\* Grid::rows: Rows { row: 0, grid: self }
rows(g) == [kind |-> "rows", index |-> 0]

\* Grid::cols: Cols { col: 0, grid: self }
cols(g) == [kind |-> "cols", index |-> 0]

\* A plausible slip: the bound of Cols::next copied into Rows::next.
Rows_next_width_bound(g, c) ==
    IF c.index < g.width
    THEN LET r == row(g, c.index) IN
         IF r.status # "ok" THEN [ret |-> Panic(r.status), it |-> c]
         ELSE [ret |-> Ok(Some(r.value[1])), it |-> [c EXCEPT !.index = c.index + 1]]
    ELSE [ret |-> Ok(None), it |-> c]

\* Rows::next: the returned Option<GridRow> and the cursor afterwards
Rows_next(g, c) ==
    IF c.index < g.height
    THEN LET r == row(g, c.index) IN
         IF r.status # "ok" THEN [ret |-> Panic(r.status), it |-> c]
         ELSE [ret |-> Ok(Some(r.value[1])), it |-> [c EXCEPT !.index = c.index + 1]]
    ELSE [ret |-> Ok(None), it |-> c]

\* Cols::next
Cols_next(g, c) ==
    IF c.index < g.width
    THEN LET r == col(g, c.index) IN
         IF r.status # "ok" THEN [ret |-> Panic(r.status), it |-> c]
         ELSE [ret |-> Ok(Some(r.value[1])), it |-> [c EXCEPT !.index = c.index + 1]]
    ELSE [ret |-> Ok(None), it |-> c]

----------------------------------------------------------------------------
(* StrExt::extract_numbers and ExtractNumbers::next *)

\* char::is_ascii_digit, on the byte of a one-byte character
is_ascii_digit(b) == b \in 48..57

\* str::find(|c| c.is_ascii_digit()): the 0-based byte index of the first
\* digit.  Bytes of a multi-byte character are all above 127, so the first
\* digit character is the first digit byte.
find_ascii_digit(s) ==
    IF \E i \in 1..Len(s) : is_ascii_digit(s[i])
    THEN Some((CHOOSE i \in 1..Len(s) :
                  is_ascii_digit(s[i]) /\ \A j \in 1..(i - 1) : ~is_ascii_digit(s[j])) - 1)
    ELSE None

\* UTF-8 continuation bytes are 0b10xxxxxx
is_char_boundary(s, i) ==
    i = 0 \/ i = Len(s) \/ (i < Len(s) /\ ~(s[i + 1] \in 128..191))

\* str::find(|c| !c.is_ascii_digit()): the byte index of the first character
\* that is no digit, which is a character boundary.
find_non_digit(s) ==
    IF \E i \in 1..Len(s) : ~is_ascii_digit(s[i])
    THEN Some((CHOOSE i \in 1..Len(s) :
                  ~is_ascii_digit(s[i]) /\ \A j \in 1..(i - 1) : is_ascii_digit(s[j])) - 1)
    ELSE None

\* <[u8]>::get(i)
bytes_get(s, i) == IF i < Len(s) THEN Some(s[i + 1]) ELSE None

\* A plausible slip: the sign is looked for two bytes before the digit.
sign_start_two_back(r, index) ==
    IF (index > 1) /\ (bytes_get(r, index - 2) = Some(MINUS)) THEN index - 1 ELSE index

\* `let start = if (index > 0) && (bytes.get(index - 1) == Some(&b'-')) { index - 1 } else { index }`
sign_start(r, index) ==
    IF (index > 0) /\ (bytes_get(r, index - 1) = Some(MINUS)) THEN index - 1 ELSE index

\* ExtractNumbers::next on the remainder that starts at byte offset rem of
\* t: the returned slice (as offsets into t) and the remainder afterwards.
\* The None arm sets the remainder to "", here the empty suffix of t.
ExtractNumbers_next(t, rem) ==
    LET r == SubSeq(t, rem + 1, Len(t))
        found == find_ascii_digit(r)
    IN  IF found = None THEN [ret |-> Ok(None), remainder |-> Len(t)]
        ELSE LET index == found[1]
                 start == sign_start(r, index)
                 rem_after_index == SubSeq(r, index + 2, Len(r))
                 nd == find_non_digit(rem_after_index)
                 end == (index + 1) + (IF nd = None THEN Len(rem_after_index) ELSE nd[1])
             IN  IF ~(is_char_boundary(r, index + 1) /\ is_char_boundary(r, start)
                       /\ is_char_boundary(r, end))
                 THEN [ret |-> Panic("NotCharBoundary"), remainder |-> rem]
                 ELSE [ret |-> Ok(Some([start |-> rem + start, end |-> rem + end])),
                       remainder |-> rem + end]

----------------------------------------------------------------------------
(* The state machine *)

RECURSIVE Flatten(_)
Flatten(cs) == IF cs = <<>> THEN <<>> ELSE Head(cs) \o Flatten(Tail(cs))

Inputs == UNION {[1..n -> InputBytes] : n \in 0..MaxLen}
Texts == UNION {[1..n -> Chars] : n \in 0..MaxText}

\* the places where the caller keeps a Rows or Cols cursor
Handles == {1, 2}
NoCursor == [it |-> None, yielded |-> <<>>]

Init ==
    /\ pc = "start"
    /\ input = <<>>
    /\ grid = None
    /\ writes = 0
    /\ view = None
    /\ iter = None
    /\ collected = <<>>
    /\ result = NoCall
    /\ text = <<>>
    /\ remainder = 0
    /\ tokens = <<>>
    /\ cursors = [h \in Handles |-> NoCursor]

After(r) == IF r.status = "ok" THEN pc ELSE "panicked"

\* let grid = Grid::parse(bytes);
Parse ==
    /\ pc = "start"
    /\ \E bytes \in Inputs :
        LET r == parse(bytes) IN
        /\ input' = bytes
        /\ result' = Call("parse", <<>>, r)
        /\ grid' = r.value
        /\ pc' = IF r.status = "ok" THEN "grid" ELSE "panicked"
    /\ UNCHANGED <<writes, view, iter, collected, scanVars, cursorVars>>

\* grid.get(x, y)
\* (The calls on the grid are modelled between the lifetimes of views and
\* cursors: a read changes neither the grid nor a cursor.)
Get ==
    /\ pc = "grid" /\ grid # None /\ view = None /\ iter = None
    /\ \E x \in 0..(grid[1].width + Beyond), y \in 0..(grid[1].height + Beyond) :
        LET r == get(grid[1], x, y) IN
        /\ result' = Call("get", <<x, y>>, r)
        /\ pc' = After(r)
    /\ UNCHANGED <<gridVars, scanVars, cursorVars>>

\* *grid.get_mut(x, y) = v;  (needs the exclusive borrow: no view or cursor is alive)
GetMut ==
    /\ pc = "grid" /\ grid # None /\ view = None /\ iter = None
    /\ writes < MaxWrites
    /\ \E x \in 0..(grid[1].width + Beyond), y \in 0..(grid[1].height + Beyond), v \in WriteBytes :
        LET r == get_mut_write(grid[1], x, y, v) IN
        /\ result' = [op |-> "get_mut", args |-> <<x, y, v>>, status |-> r.status, value |-> None]
        /\ grid' = IF r.status = "ok" THEN r.value ELSE grid
        /\ writes' = IF r.status = "ok" THEN writes + 1 ELSE writes
        /\ pc' = After(r)
    /\ UNCHANGED <<input, view, iter, collected, scanVars, cursorVars>>

\* grid.format_ascii()
FormatAscii ==
    /\ pc = "grid" /\ grid # None /\ view = None /\ iter = None
    /\ LET r == format_ascii(grid[1]) IN
        /\ result' = Call("format_ascii", <<>>, r)
        /\ pc' = After(r)
    /\ UNCHANGED <<gridVars, scanVars, cursorVars>>

\* grid.map(f)
Map ==
    /\ pc = "grid" /\ grid # None /\ view = None /\ iter = None
    /\ \E k \in MapFns :
        LET r == map(grid[1], k) IN
        /\ result' = Call("map", <<k>>, r)
        /\ pc' = After(r)
    /\ UNCHANGED <<gridVars, scanVars, cursorVars>>

\* grid.map_indexed(f)
MapIndexed ==
    /\ pc = "grid" /\ grid # None /\ view = None /\ iter = None
    /\ \E k \in MapFns :
        LET r == map_indexed(grid[1], k) IN
        /\ result' = Call("map_indexed", <<k>>, r)
        /\ pc' = After(r)
    /\ UNCHANGED <<gridVars, scanVars, cursorVars>>

\* let view = grid.row(r);
Row ==
    /\ pc = "grid" /\ grid # None /\ view = None /\ iter = None
    /\ \E r \in 0..(grid[1].height + Beyond) :
        LET v == row(grid[1], r) IN
        /\ result' = Call("row", <<r>>, v)
        /\ view' = v.value
        /\ pc' = After(v)
    /\ UNCHANGED <<input, grid, writes, iter, collected, scanVars, cursorVars>>

\* let view = grid.col(c);
Col ==
    /\ pc = "grid" /\ grid # None /\ view = None /\ iter = None
    /\ \E c \in 0..(grid[1].width + Beyond) :
        LET v == col(grid[1], c) IN
        /\ result' = Call("col", <<c>>, v)
        /\ view' = v.value
        /\ pc' = After(v)
    /\ UNCHANGED <<input, grid, writes, iter, collected, scanVars, cursorVars>>

\* let it = view.into_iter();
IntoIter ==
    /\ pc = "grid" /\ view # None
    /\ iter' = Some(into_iter(view[1]))
    /\ view' = None
    /\ collected' = <<>>
    /\ result' = [op |-> "into_iter", args |-> <<>>, status |-> "ok", value |-> None]
    /\ UNCHANGED <<pc, input, grid, writes, scanVars, cursorVars>>

\* it.next() on a GridRowIter; the caller collects what it yields
RowIterNext ==
    /\ pc = "grid" /\ iter # None /\ iter[1].kind = "row"
    /\ LET n == GridRowIter_next(grid[1], iter[1]) IN
        /\ result' = Call("row_next", <<>>, n.ret)
        /\ iter' = Some(n.it)
        /\ collected' = IF n.ret.status = "ok" THEN collected \o n.ret.value[1] ELSE collected
        /\ pc' = After(n.ret)
    /\ UNCHANGED <<input, grid, writes, view, scanVars, cursorVars>>

\* it.next() on a GridColIter
ColIterNext ==
    /\ pc = "grid" /\ iter # None /\ iter[1].kind = "col"
    /\ LET n == GridColIter_next(grid[1], iter[1]) IN
        /\ result' = Call("col_next", <<>>, n.ret)
        /\ iter' = Some(n.it)
        /\ collected' = IF n.ret.status = "ok" THEN collected \o n.ret.value[1] ELSE collected
        /\ pc' = After(n.ret)
    /\ UNCHANGED <<input, grid, writes, view, scanVars, cursorVars>>

\* the view or cursor goes out of scope, which ends its borrow of the grid
Drop ==
    /\ pc = "grid" /\ (view # None \/ iter # None)
    /\ view' = None
    /\ iter' = None
    /\ collected' = <<>>
    /\ result' = [op |-> "drop", args |-> <<>>, status |-> "ok", value |-> None]
    /\ UNCHANGED <<pc, input, grid, writes, scanVars, cursorVars>>

\* let numbers = text.extract_numbers();
ExtractNumbers ==
    /\ pc = "start"
    /\ \E cs \in Texts :
        /\ text' = Flatten(cs)
        /\ remainder' = 0
    /\ tokens' = <<>>
    /\ result' = [op |-> "extract_numbers", args |-> <<>>, status |-> "ok", value |-> None]
    /\ pc' = "scan"
    /\ UNCHANGED <<gridVars, cursorVars>>

\* numbers.next(); the caller collects what it yields
ScanNext ==
    /\ pc = "scan"
    /\ LET n == ExtractNumbers_next(text, remainder) IN
        /\ result' = Call("scan_next", <<>>, n.ret)
        /\ remainder' = n.remainder
        /\ tokens' = IF n.ret.status = "ok" THEN tokens \o n.ret.value[1] ELSE tokens
        /\ pc' = IF n.ret.status = "ok" THEN "scan" ELSE "panicked"
    /\ UNCHANGED <<gridVars, text, cursorVars>>

Next ==
    \/ Parse
    \/ Get
    \/ GetMut
    \/ FormatAscii
    \/ Map
    \/ MapIndexed
    \/ Row
    \/ Col
    \/ IntoIter
    \/ RowIterNext
    \/ ColIterNext
    \/ Drop
    \/ ExtractNumbers
    \/ ScanNext

Spec == Init /\ [][Next]_vars

----------------------------------------------------------------------------
(* Several Rows / Cols cursors over one grid *)

\* let h = grid.rows();  (a cursor kept in h before is dropped)
RowsCall ==
    /\ pc = "grid" /\ grid # None
    /\ \E h \in Handles :
        /\ cursors' = [cursors EXCEPT ![h] = [it |-> Some(rows(grid[1])), yielded |-> <<>>]]
        /\ result' = [op |-> "rows", args |-> <<h>>, status |-> "ok", value |-> None]
    /\ UNCHANGED <<pc, gridVars, scanVars>>

\* let h = grid.cols();
ColsCall ==
    /\ pc = "grid" /\ grid # None
    /\ \E h \in Handles :
        /\ cursors' = [cursors EXCEPT ![h] = [it |-> Some(cols(grid[1])), yielded |-> <<>>]]
        /\ result' = [op |-> "cols", args |-> <<h>>, status |-> "ok", value |-> None]
    /\ UNCHANGED <<pc, gridVars, scanVars>>

\* h.next() on a Rows; the caller collects the views it yields
RowsNext ==
    /\ pc = "grid" /\ grid # None
    /\ \E h \in Handles :
        /\ cursors[h].it # None /\ cursors[h].it[1].kind = "rows"
        /\ LET n == Rows_next(grid[1], cursors[h].it[1]) IN
            /\ result' = Call("rows_next", <<h>>, n.ret)
            /\ cursors' = [cursors EXCEPT ![h] =
                              [it |-> Some(n.it),
                               yielded |-> IF n.ret.status = "ok"
                                           THEN cursors[h].yielded \o n.ret.value[1]
                                           ELSE cursors[h].yielded]]
            /\ pc' = After(n.ret)
    /\ UNCHANGED <<gridVars, scanVars>>

\* h.next() on a Cols
ColsNext ==
    /\ pc = "grid" /\ grid # None
    /\ \E h \in Handles :
        /\ cursors[h].it # None /\ cursors[h].it[1].kind = "cols"
        /\ LET n == Cols_next(grid[1], cursors[h].it[1]) IN
            /\ result' = Call("cols_next", <<h>>, n.ret)
            /\ cursors' = [cursors EXCEPT ![h] =
                              [it |-> Some(n.it),
                               yielded |-> IF n.ret.status = "ok"
                                           THEN cursors[h].yielded \o n.ret.value[1]
                                           ELSE cursors[h].yielded]]
            /\ pc' = After(n.ret)
    /\ UNCHANGED <<gridVars, scanVars>>

NextCursors ==
    \/ Parse
    \/ RowsCall
    \/ ColsCall
    \/ RowsNext
    \/ ColsNext

\* a parsed grid and the cursors made from it
SpecCursors == Init /\ [][NextCursors]_vars

----------------------------------------------------------------------------
(* Vocabulary of the properties, stated on the bytes and not through the   *)
(* operators above                                                         *)

\* s is h lines of w bytes each, separated by '\n', with one trailing '\n' iff trailing
UniformText(s, w, h, trailing) ==
    /\ Len(s) = h * w + (h - 1) + (IF trailing THEN 1 ELSE 0)
    /\ \A k \in 1..Len(s) : (s[k] = NL) <=> (k % (w + 1) = 0)

IsAsciiText(s) == \A k \in 1..Len(s) : s[k] <= 127

\* s with its optional trailing newline made exactly one
Normalised(s) == IF s # <<>> /\ s[Len(s)] = NL THEN s ELSE s \o <<NL>>

SepPos(s) == {k \in 1..Len(s) : s[k] = NL}
NumSegs(s) == Cardinality(SepPos(s)) + 1
\* position of the i-th separator; 0 before the first segment, Len(s) + 1 after the last
NthSep(s, i) ==
    IF i = 0 THEN 0
    ELSE IF i = NumSegs(s) THEN Len(s) + 1
    ELSE CHOOSE k \in SepPos(s) : Cardinality({j \in SepPos(s) : j < k}) = i - 1
SegLen(s, i) == NthSep(s, i) - NthSep(s, i - 1) - 1

\* some line after the first differs in length from the first, other than an empty final segment
Mismatched(s) ==
    \E i \in 2..NumSegs(s) :
        /\ SegLen(s, i) # SegLen(s, 1)
        /\ ~(i = NumSegs(s) /\ SegLen(s, i) = 0)

ShapeInv(g) == Len(g.values) = g.width * g.height

----------------------------------------------------------------------------
(* C1 *)

\* C1: Grid::parse on the empty byte sequence returns normally and yields
\* the empty grid, width() = 0 and height() = 0.
\* The code does not do this: split gives one empty first line, width is 0
\* and `values.len() / width` divides by zero.
ParseEmptyYieldsEmptyGrid ==
    (result.op = "parse" /\ input = <<>>) =>
        /\ result.status = "ok"
        /\ grid # None
        /\ grid[1].width = 0
        /\ grid[1].height = 0

----------------------------------------------------------------------------
(* C2 *)

\* C2: for every ASCII grid text s whose lines all have the same length,
\* with at most one trailing newline, format_ascii(parse(s)) is s with the
\* trailing newline made exactly one.
\* (For the text without rows both readings of "normalised" are accepted.)
RoundTrip ==
    (/\ IsAsciiText(input)
     /\ \E w \in 0..MaxLen, h \in 1..(MaxLen + 1), t \in BOOLEAN : UniformText(input, w, h, t))
    =>
        /\ result.op = "parse" => result.status = "ok"
        /\ (result.op = "format_ascii" /\ writes = 0) =>
              /\ result.status = "ok"
              /\ IF input = <<>>
                 THEN result.value \in {Some(<<>>), Some(<<NL>>)}
                 ELSE result.value = Some(Normalised(input))

\* The round trip where the code does reach format_ascii: rows of at least one byte.
RoundTripNonEmptyRows ==
    (/\ IsAsciiText(input)
     /\ \E w \in 1..MaxLen, h \in 1..MaxLen, t \in BOOLEAN : UniformText(input, w, h, t))
    =>
        /\ result.op = "parse" => result.status = "ok"
        /\ (result.op = "format_ascii" /\ writes = 0) =>
              /\ result.status = "ok"
              /\ result.value = Some(Normalised(input))

----------------------------------------------------------------------------
(* C3 *)

\* C3: parse fails with InvalidGrid and returns no grid for every input in
\* which some line after the first has a length different from the first
\* line's, the one exception being an empty final segment.
ParseRejectsMismatch ==
    (result.op = "parse" /\ Mismatched(input)) =>
        /\ result.status = "InvalidGrid"
        /\ grid = None

\* "..\n\n" was handed to parse: two newlines at the end, rejected
ParseRejectsMismatchWitness ==
    /\ result.op = "parse"
    /\ input = <<46, 46, NL, NL>>
    /\ Mismatched(input)
    /\ result.status = "InvalidGrid"

----------------------------------------------------------------------------
(* C4 *)

\* C4: for every input of h >= 1 lines of the same length w >= 1, with or
\* without one trailing newline, parse succeeds with width() = w and
\* height() = h, and get(x, y) is byte x of line y.
ParseUniform ==
    \A w \in 1..MaxLen, h \in 1..MaxLen, t \in BOOLEAN :
        (result.op = "parse" /\ UniformText(input, w, h, t)) =>
            /\ result.status = "ok"
            /\ grid # None
            /\ grid[1].width = w
            /\ grid[1].height = h
            /\ \A x \in 0..(w - 1), y \in 0..(h - 1) :
                  get(grid[1], x, y) = Ok(input[y * (w + 1) + x + 1])

\* ".\n.\n" was parsed: two rows, the trailing newline adds none
ParseUniformWitness ==
    /\ result.op = "parse"
    /\ input = <<46, NL, 200, NL>>
    /\ UniformText(input, 1, 2, TRUE)
    /\ result.status = "ok"
    /\ grid[1].height = 2

----------------------------------------------------------------------------
(* C5 *)

\* C5: in every grid state (after parse, after map / map_indexed, after
\* writes through get_mut) the number of stored values is width * height;
\* width and height never change; a write through get_mut(x, y) changes
\* only the cell at flat index y * width + x.
GridShape ==
    [][/\ grid' # None => ShapeInv(grid'[1])
       /\ (grid # None /\ grid' # None) =>
             (grid'[1].width = grid[1].width /\ grid'[1].height = grid[1].height)
       /\ (result'.op \in {"map", "map_indexed"} /\ result'.status = "ok") =>
             ShapeInv(result'.value[1])
       /\ (result'.op = "get_mut" /\ result'.status = "ok") =>
             \A i \in 1..Len(grid[1].values) :
                 i # result'.args[2] * grid[1].width + result'.args[1] + 1
                     => grid'[1].values[i] = grid[1].values[i]
      ]_vars

\* a cell of the second row of a grid was overwritten
GridShapeWitness ==
    /\ result.op = "get_mut"
    /\ result.status = "ok"
    /\ writes = 1
    /\ result.args[2] = 1
    /\ ShapeInv(grid[1])
    /\ grid[1].values[result.args[2] * grid[1].width + result.args[1] + 1] = result.args[3]
    /\ grid # parse(input).value

----------------------------------------------------------------------------
(* C6 *)

\* C6: get(x, y) and get_mut(x, y) fail with an out-of-bounds error exactly
\* when x >= width or y >= height, row(r) fails exactly when r >= height,
\* col(c) exactly when c >= width; in range they succeed and get / get_mut
\* address the cell at flat index y * width + x.
AccessorBounds ==
    grid # None =>
        LET g == grid[1] IN
        /\ result.op = "get" =>
              IF result.args[1] >= g.width \/ result.args[2] >= g.height
              THEN result.status = "IndexOutOfBounds"
              ELSE /\ result.status = "ok"
                   /\ result.value = Some(g.values[result.args[2] * g.width + result.args[1] + 1])
        /\ result.op = "get_mut" =>
              IF result.args[1] >= g.width \/ result.args[2] >= g.height
              THEN result.status = "IndexOutOfBounds"
              ELSE /\ result.status = "ok"
                   /\ g.values[result.args[2] * g.width + result.args[1] + 1] = result.args[3]
        /\ result.op = "row" =>
              IF result.args[1] >= g.height
              THEN result.status = "IndexOutOfBounds"
              ELSE result.status = "ok" /\ view = Some([kind |-> "row", index |-> result.args[1]])
        /\ result.op = "col" =>
              IF result.args[1] >= g.width
              THEN result.status = "IndexOutOfBounds"
              ELSE result.status = "ok" /\ view = Some([kind |-> "col", index |-> result.args[1]])

\* get was called with x = width on a row that has a next row: it failed
AccessorBoundsWitness ==
    /\ grid # None
    /\ result.op = "get"
    /\ result.args[1] = grid[1].width
    /\ result.args[2] + 1 < grid[1].height
    /\ result.status = "IndexOutOfBounds"

----------------------------------------------------------------------------
(* C7 *)

\* C7: iterating row(r) to exhaustion yields exactly get(0, r), ...,
\* get(width - 1, r) in that order and then ends; iterating col(c) yields
\* exactly get(c, 0), ..., get(c, height - 1) and then ends; no step fails.
IterationYields ==
    (grid # None /\ iter # None) =>
        LET g == grid[1]
            it == iter[1]
        IN  /\ it.kind = "row" =>
                  /\ it.col <= g.width
                  /\ collected = [x \in 1..it.col |-> get(g, x - 1, it.row).value[1]]
                  /\ \A x \in 1..it.col : get(g, x - 1, it.row).status = "ok"
                  /\ result.op = "row_next" =>
                        /\ result.status = "ok"
                        /\ IF result.value[1] = None
                           THEN it.col = g.width
                           ELSE it.col >= 1 /\ result.value[1][1] = collected[it.col]
            /\ it.kind = "col" =>
                  /\ it.row <= g.height
                  /\ collected = [y \in 1..it.row |-> get(g, it.col, y - 1).value[1]]
                  /\ \A y \in 1..it.row : get(g, it.col, y - 1).status = "ok"
                  /\ result.op = "col_next" =>
                        /\ result.status = "ok"
                        /\ IF result.value[1] = None
                           THEN it.row = g.height
                           ELSE it.row >= 1 /\ result.value[1][1] = collected[it.row]

\* row 1 of the grid parsed from "..\n.\200" was iterated to its end
IterationYieldsWitness ==
    /\ iter # None
    /\ iter[1].kind = "row"
    /\ iter[1].row = 1
    /\ result.op = "row_next"
    /\ result.value = Some(None)
    /\ input = <<46, 46, NL, 46, 200>>
    /\ collected = <<46, 200>>

----------------------------------------------------------------------------
(* C8 *)

IsDigitAt(i) == text[i] \in 48..57

\* 1-based positions where a maximal run of digits starts
RunStarts == {i \in 1..Len(text) : IsDigitAt(i) /\ (i = 1 \/ ~IsDigitAt(i - 1))}

\* 1-based position of the last digit of the run that starts at i
RunEnd(i) ==
    CHOOSE j \in i..Len(text) :
        /\ \A k \in i..j : IsDigitAt(k)
        /\ j = Len(text) \/ ~IsDigitAt(j + 1)

\* the run that starts at i, extended one to the left exactly when a '-' is right before it
ExpectedToken(i) ==
    [start |-> (IF i > 1 /\ text[i - 1] = MINUS THEN i - 2 ELSE i - 1), end |-> RunEnd(i)]

NthRunStart(n) == CHOOSE i \in RunStarts : Cardinality({j \in RunStarts : j < i}) = n - 1

ExpectedTokens == [n \in 1..Cardinality(RunStarts) |-> ExpectedToken(NthRunStart(n))]

TokenBytes(tok) == SubSeq(text, tok.start + 1, tok.end)

\* -?[0-9]+
MatchesNumber(b) ==
    /\ Len(b) >= 1
    /\ b[Len(b)] \in 48..57
    /\ \A k \in 2..Len(b) : b[k] \in 48..57
    /\ b[1] = MINUS \/ b[1] \in 48..57

Covers(tok, i) == tok.start < i /\ i <= tok.end

\* C8: extract_numbers yields, in order of position, exactly the maximal
\* runs of ASCII digits of the text, each extended one character to the
\* left exactly when the character right before the run is '-': every digit
\* lies in exactly one token, every token matches -?[0-9]+, and a '-' that
\* no digit follows is in no token.
ExtractsNumbers ==
    pc = "scan" =>
        /\ Len(tokens) <= Len(ExpectedTokens)
        /\ tokens = SubSeq(ExpectedTokens, 1, Len(tokens))
        /\ \A n \in 1..Len(tokens) : MatchesNumber(TokenBytes(tokens[n]))
        /\ result.op = "scan_next" =>
              /\ result.status = "ok"
              /\ IF result.value[1] # None
                 THEN result.value[1][1] = tokens[Len(tokens)]
                 ELSE /\ tokens = ExpectedTokens
                      /\ \A i \in 1..Len(text) :
                            /\ IsDigitAt(i) =>
                                  Cardinality({n \in 1..Len(tokens) : Covers(tokens[n], i)}) = 1
                            /\ (text[i] = MINUS /\ (i = Len(text) \/ ~IsDigitAt(i + 1))) =>
                                  \A n \in 1..Len(tokens) : ~Covers(tokens[n], i)

\* "7--7-" was scanned to its end: "7" and "-7", the other signs in no token
ExtractsNumbersWitness ==
    /\ pc = "scan"
    /\ text = <<55, MINUS, MINUS, 55, MINUS>>
    /\ result.op = "scan_next"
    /\ result.value = Some(None)
    /\ tokens = <<[start |-> 0, end |-> 1], [start |-> 2, end |-> 4]>>

----------------------------------------------------------------------------
(* C9 *)

\* C9: map(f) and map_indexed(f) return a new grid with the width and
\* height of the source and leave the source unchanged; cell (x, y) of
\* map(f) is f(source cell (x, y)) and cell (x, y) of map_indexed(f) is
\* f(source cell (x, y), x, y).
MapLaw ==
    [][result'.op \in {"map", "map_indexed"} =>
          /\ result'.status = "ok"
          /\ grid' = grid
          /\ LET g == grid[1]
                 m == result'.value[1]
                 k == result'.args[1]
             IN  /\ m.width = g.width
                 /\ m.height = g.height
                 /\ \A x \in 0..(g.width - 1), y \in 0..(g.height - 1) :
                       get(m, x, y) =
                           Ok(IF result'.op = "map"
                              THEN map_fn(k, g.values[y * g.width + x + 1])
                              ELSE map_indexed_fn(k, g.values[y * g.width + x + 1], x, y))
      ]_vars

\* map_indexed was applied to a grid of two rows and two columns
MapLawWitness ==
    /\ result.op = "map_indexed"
    /\ result.status = "ok"
    /\ grid[1].width = 2
    /\ grid[1].height = 2
    /\ result.value[1].values[3] = map_indexed_fn(result.args[1], grid[1].values[3], 0, 1)

----------------------------------------------------------------------------
(* C10 *)

\* C10: format_ascii fails with InvalidEncoding, producing no output,
\* exactly when some stored cell byte is greater than 127 at the time of
\* the call, also when the cell was written through get_mut after a parse
\* of ASCII text; when all cells are in 0..127 it succeeds.
FormatEncoding ==
    (grid # None /\ result.op = "format_ascii") =>
        IF \E i \in 1..Len(grid[1].values) : grid[1].values[i] > 127
        THEN result.status = "InvalidEncoding" /\ result.value = None
        ELSE result.status = "ok" /\ result.value # None

\* an ASCII text was parsed, a cell of its second row overwritten with 128: format_ascii failed
FormatEncodingWitness ==
    /\ result.op = "format_ascii"
    /\ result.status = "InvalidEncoding"
    /\ IsAsciiText(input)
    /\ writes = 1
    /\ grid[1].height = 2
    /\ grid[1].values[grid[1].width + 1] = 128

----------------------------------------------------------------------------
(* C11 *)

\* the views of indices 0 .. n - 1, in increasing order
ViewsUpTo(kind, n) == [i \in 1..n |-> [kind |-> kind, index |-> i - 1]]

\* what the cursor in h has yielded is the views 0 .. index - 1 of its kind, and not beyond the grid
CursorInOrder(g, h) ==
    cursors[h].it # None =>
        LET c == cursors[h].it[1] IN
        IF c.kind = "rows"
        THEN c.index <= g.height /\ cursors[h].yielded = ViewsUpTo("row", c.index)
        ELSE c.index <= g.width /\ cursors[h].yielded = ViewsUpTo("col", c.index)

\* C11: rows() yields exactly height row views bound to rows 0, 1, ...,
\* height - 1 in increasing order and cols() exactly width column views
\* bound to columns 0, 1, ..., width - 1; each call of rows() / cols()
\* returns a fresh cursor starting at 0, and advancing or exhausting one
\* cursor changes neither the grid nor any other cursor of the same grid
\* or what it goes on to yield.
CursorsIndependent ==
    [][result'.op \in {"rows", "cols", "rows_next", "cols_next"} =>
          LET g == grid[1]
              h == result'.args[1]
              c == cursors'[h].it[1]
          IN  /\ result'.status = "ok"
              /\ grid' = grid
              /\ \A o \in Handles \ {h} : cursors'[o] = cursors[o]
              /\ \A o \in Handles : CursorInOrder(g, o)'
              /\ result'.op = "rows" => (c = [kind |-> "rows", index |-> 0] /\ cursors'[h].yielded = <<>>)
              /\ result'.op = "cols" => (c = [kind |-> "cols", index |-> 0] /\ cursors'[h].yielded = <<>>)
              /\ result'.op = "rows_next" =>
                    IF result'.value[1] = None
                    THEN c.index = g.height /\ cursors'[h] = cursors[h]
                    ELSE /\ c.index = cursors[h].it[1].index + 1
                         /\ result'.value[1][1] = [kind |-> "row", index |-> c.index - 1]
              /\ result'.op = "cols_next" =>
                    IF result'.value[1] = None
                    THEN c.index = g.width /\ cursors'[h] = cursors[h]
                    ELSE /\ c.index = cursors[h].it[1].index + 1
                         /\ result'.value[1][1] = [kind |-> "col", index |-> c.index - 1]
      ]_vars

\* on a grid of two rows, the rows() cursor in handle 1 was exhausted while
\* the one in handle 2, made earlier, still stands after its first row
CursorsIndependentWitness ==
    /\ grid # None
    /\ grid[1].height = 2
    /\ result.op = "rows_next"
    /\ result.args = <<1>>
    /\ result.value = Some(None)
    /\ cursors[1].yielded = <<[kind |-> "row", index |-> 0], [kind |-> "row", index |-> 1]>>
    /\ cursors[2].it = Some([kind |-> "rows", index |-> 1])
    /\ cursors[2].yielded = <<[kind |-> "row", index |-> 0]>>

====
